---- MODULE Spec2Model ----
(***************************************************************************)
(* create-icons.py: a one-shot script that makes the directory            *)
(* public/icons, opens public/icon-192.png and saves five resized copies   *)
(* of it, printing a confirmation after each save.                         *)
(*                                                                         *)
(* The state is the part of the file system the script touches, the       *)
(* script's variables, its standard output and its program counter.       *)
(* Every statement of the script is one action.  Library calls that can   *)
(* raise (os.makedirs, Image.open, Image.resize on a lazily opened file,  *)
(* Image.save) either take effect or end the run in "error"; nothing in   *)
(* the script catches an exception.                                        *)
(***************************************************************************)
EXTENDS Integers, Sequences, FiniteSets, TLC

VARIABLES
    pc,          \* the statement about to run, "done" or "error"
    err,         \* which call raised ("none" while nothing has)
    run,         \* number of the current invocation of the script
    publicDir,   \* state of the path public: "absent" or "dir"
    iconsDir,    \* state of the path public/icons: "absent", "dir" or "file"
    fs,          \* path -> file content
    base_icon,   \* the script's variable base_icon
    idx,         \* how many elements of sizes the for loop has taken
    size,        \* the script's loop variable size
    resized,     \* the script's variable resized
    resized_64,  \* the script's variable resized_64
    stdout,      \* the lines printed by this invocation
    \* history of the current invocation
    fs0,         \* fs when the invocation started
    iconsDir0,   \* iconsDir when the invocation started
    publicDir0,  \* publicDir when the invocation started
    opens,       \* number of Image.open calls made
    attempts,    \* paths passed to save, in order
    saved,       \* paths whose save returned normally, in order
    \* history of the previous invocation
    prevEnd,     \* "none", "done" or "error"
    prevOut      \* fs when the previous invocation ended

Range(q) == {q[i] : i \in 1..Len(q)}

vars == <<pc, err, run, publicDir, iconsDir, fs, base_icon, idx, size, resized,
          resized_64, stdout, fs0, iconsDir0, publicDir0, opens, attempts,
          saved, prevEnd, prevOut>>

(***************************************************************************)
(* Bounds of the model.                                                    *)
(***************************************************************************)
NumImages == 2      \* distinct decodable source bitmaps
MaxRuns == 2        \* invocations of the script in one behaviour

(***************************************************************************)
(* Literals of the script.                                                 *)
(***************************************************************************)
BaseSize == 192
\* mutant: the largest size is left out of the list
sizes_without_128 == <<16, 32, 48>>
\* mutant: the list in another order
sizes_reordered == <<16, 32, 128, 48>>
sizes == <<16, 32, 48, 128>>
Size64 == 64
SourcePath == "public/icon-192.png"
Icon64Path == "public/icons/icon-64.png"
Icon64Message == "Created public/icons/icon-64.png"

\* f'public/icons/icon-{size}.png'
IconPath(s) == "public/icons/icon-" \o ToString(s) \o ".png"

\* mutant: the f prefix is missing, so the braces are printed as they are
MessageUnformatted(s) == "Created public/icons/icon-{size}.png"

\* f'Created public/icons/icon-{size}.png' (after the check mark)
Message(s) == "Created public/icons/icon-" \o ToString(s) \o ".png"

(***************************************************************************)
(* Files and bitmaps.  A bitmap is identified by the source bitmap it      *)
(* came from (px) and the chain of resize targets applied to it; LANCZOS   *)
(* resampling is a deterministic function of both.                         *)
(***************************************************************************)
NoFile == [kind |-> "absent", w |-> 0, h |-> 0, px |-> 0, chain |-> <<>>]
GarbageFile == [kind |-> "garbage", w |-> 0, h |-> 0, px |-> 0, chain |-> <<>>]
PartialFile == [kind |-> "partial", w |-> 0, h |-> 0, px |-> 0, chain |-> <<>>]
StaleFile == [kind |-> "png", w |-> 1, h |-> 1, px |-> 0, chain |-> <<>>]
SourceImage(id) ==
    [kind |-> "png", w |-> BaseSize, h |-> BaseSize, px |-> id, chain |-> <<>>]
\* a file with a valid header whose pixel data is cut short
TruncatedImage(id) ==
    [kind |-> "truncated", w |-> BaseSize, h |-> BaseSize, px |-> id, chain |-> <<>>]
NoImage == NoFile

\* img.resize((s, s), Image.Resampling.LANCZOS): a new bitmap, img untouched
Resize(img, s) ==
    [kind |-> "png", w |-> s, h |-> s, px |-> img.px, chain |-> Append(img.chain, s)]

\* An unrelated file that may already be in public/icons.
UnrelatedPath == "public/icons/favicon.ico"
OutPaths ==
    {"public/icons/icon-16.png", "public/icons/icon-32.png",
     "public/icons/icon-48.png", "public/icons/icon-64.png",
     "public/icons/icon-128.png", UnrelatedPath}
Paths == {SourcePath} \cup OutPaths
SourceFiles ==
    {NoFile, GarbageFile} \cup {SourceImage(i) : i \in 1..NumImages}
        \cup {TruncatedImage(i) : i \in 1..NumImages}

(***************************************************************************)
(* Init: the file system before the first invocation, and a fresh process. *)
(***************************************************************************)
Fresh ==
    /\ pc = "makedirs"
    /\ err = "none"
    /\ base_icon = NoImage
    /\ idx = 0
    /\ size = 0
    /\ resized = NoImage
    /\ resized_64 = NoImage
    /\ stdout = <<>>
    /\ opens = 0
    /\ attempts = <<>>
    /\ saved = <<>>

Init ==
    /\ Fresh
    /\ run = 1
    /\ publicDir \in {"absent", "dir"}
    /\ iconsDir \in {"absent", "dir", "file"}
    /\ publicDir = "absent" => iconsDir = "absent"
    /\ \E src \in SourceFiles, pre \in SUBSET OutPaths :
          /\ publicDir = "absent" => src = NoFile
          /\ iconsDir # "dir" => pre = {}
          /\ fs = [p \in Paths |-> IF p = SourcePath THEN src
                                   ELSE IF p \in pre THEN StaleFile ELSE NoFile]
    /\ fs0 = fs
    /\ iconsDir0 = iconsDir
    /\ publicDir0 = publicDir
    /\ prevEnd = "none"
    /\ prevOut = fs

Raise(kind) ==
    /\ pc' = "error"
    /\ err' = kind

proc == <<base_icon, idx, size, resized, resized_64>>
hist == <<fs0, iconsDir0, publicDir0, prevEnd, prevOut, run>>

\* mutant: os.makedirs without exist_ok, which raises when the directory exists
MakeDirsNoExistOk ==
    /\ pc = "makedirs"
    /\ \/ /\ iconsDir = "absent"
          /\ publicDir' = "dir"
          /\ iconsDir' = "dir"
          /\ pc' = "open"
          /\ UNCHANGED err
       \/ /\ iconsDir # "absent"
          /\ Raise("makedirs")
          /\ UNCHANGED <<publicDir, iconsDir>>
    /\ UNCHANGED <<fs, proc, stdout, hist, opens, attempts, saved>>

(***************************************************************************)
(* os.makedirs('public/icons', exist_ok=True)                              *)
(***************************************************************************)
MakeDirs ==
    /\ pc = "makedirs"
    /\ \/ /\ iconsDir = "dir"
          /\ pc' = "open"
          /\ UNCHANGED <<err, publicDir, iconsDir>>
       \/ /\ iconsDir = "absent"
          /\ publicDir' = "dir"
          /\ iconsDir' = "dir"
          /\ pc' = "open"
          /\ UNCHANGED err
       \/ /\ iconsDir = "absent"      \* the parent cannot be written
          /\ Raise("makedirs")
          /\ UNCHANGED <<publicDir, iconsDir>>
       \/ /\ iconsDir = "file"        \* FileExistsError
          /\ Raise("makedirs")
          /\ UNCHANGED <<publicDir, iconsDir>>
    /\ UNCHANGED <<fs, proc, stdout, hist, opens, attempts, saved>>

(***************************************************************************)
(* base_icon = Image.open('public/icon-192.png')                           *)
(* Image.open reads the header only; the pixel data is decoded by the      *)
(* first resize.                                                           *)
(***************************************************************************)
OpenBase ==
    /\ pc = "open"
    /\ opens' = opens + 1
    /\ IF fs[SourcePath].kind \in {"absent", "garbage", "partial"}
       THEN /\ Raise("open")
            /\ UNCHANGED base_icon
       ELSE /\ base_icon' = fs[SourcePath]
            /\ pc' = "for"
            /\ UNCHANGED err
    /\ UNCHANGED <<publicDir, iconsDir, fs, idx, size, resized, resized_64,
                   stdout, hist, attempts, saved>>

\* mutant: the loop stops one element early
ForNextEarlyExit ==
    /\ pc = "for"
    /\ IF idx < Len(sizes) - 1
       THEN /\ idx' = idx + 1
            /\ size' = sizes[idx + 1]
            /\ pc' = "resize"
       ELSE /\ pc' = "resize_64"
            /\ UNCHANGED <<idx, size>>
    /\ UNCHANGED <<err, publicDir, iconsDir, fs, base_icon, resized, resized_64,
                   stdout, hist, opens, attempts, saved>>

(***************************************************************************)
(* for size in sizes:                                                      *)
(***************************************************************************)
ForNext ==
    /\ pc = "for"
    /\ IF idx < Len(sizes)
       THEN /\ idx' = idx + 1
            /\ size' = sizes[idx + 1]
            /\ pc' = "resize"
       ELSE /\ pc' = "resize_64"
            /\ UNCHANGED <<idx, size>>
    /\ UNCHANGED <<err, publicDir, iconsDir, fs, base_icon, resized, resized_64,
                   stdout, hist, opens, attempts, saved>>

\* mutant: the base image is replaced by its resized copy (base_icon = base_icon.resize)
ResizeStepInPlace ==
    /\ pc = "resize"
    /\ IF base_icon.kind # "png"
       THEN /\ Raise("resize")
            /\ UNCHANGED <<resized, base_icon>>
       ELSE /\ resized' = Resize(base_icon, size)
            /\ base_icon' = Resize(base_icon, size)
            /\ pc' = "save"
            /\ UNCHANGED err
    /\ UNCHANGED <<publicDir, iconsDir, fs, idx, size, resized_64,
                   stdout, hist, opens, attempts, saved>>

\* mutant: truncated image data is tolerated (ImageFile.LOAD_TRUNCATED_IMAGES)
ResizeStepTolerant ==
    /\ pc = "resize"
    /\ resized' = Resize(base_icon, size)
    /\ pc' = "save"
    /\ UNCHANGED <<err, publicDir, iconsDir, fs, base_icon, idx, size, resized_64,
                   stdout, hist, opens, attempts, saved>>

(***************************************************************************)
(* resized = base_icon.resize((size, size), Image.Resampling.LANCZOS)      *)
(***************************************************************************)
ResizeStep ==
    /\ pc = "resize"
    /\ IF base_icon.kind # "png"
       THEN /\ Raise("resize")
            /\ UNCHANGED resized
       ELSE /\ resized' = Resize(base_icon, size)
            /\ pc' = "save"
            /\ UNCHANGED err
    /\ UNCHANGED <<publicDir, iconsDir, fs, base_icon, idx, size, resized_64,
                   stdout, hist, opens, attempts, saved>>

\* mutant: a file that already exists is not written again
SaveToIfAbsent(path, image, next) ==
    /\ attempts' = Append(attempts, path)
    /\ \/ /\ fs' = [fs EXCEPT ![path] = IF fs[path] = NoFile THEN image ELSE fs[path]]
          /\ saved' = Append(saved, path)
          /\ pc' = next
          /\ UNCHANGED err
       \/ /\ \E left \in {fs[path], PartialFile} : fs' = [fs EXCEPT ![path] = left]
          /\ Raise("save")
          /\ UNCHANGED saved

\* mutant: a failed save puts back the files the run had already written
SaveToRollback(path, image, next) ==
    /\ attempts' = Append(attempts, path)
    /\ \/ /\ fs' = [fs EXCEPT ![path] = image]
          /\ saved' = Append(saved, path)
          /\ pc' = next
          /\ UNCHANGED err
       \/ /\ fs' = [p \in Paths |-> IF p \in Range(attempts') THEN fs0[p] ELSE fs[p]]
          /\ Raise("save")
          /\ UNCHANGED saved

\* mutant: the exception of a failed save is caught and the script goes on
SaveToSwallow(path, image, next) ==
    /\ attempts' = Append(attempts, path)
    /\ \/ /\ fs' = [fs EXCEPT ![path] = image]
          /\ saved' = Append(saved, path)
          /\ pc' = next
          /\ UNCHANGED err
       \/ /\ \E left \in {fs[path], PartialFile} : fs' = [fs EXCEPT ![path] = left]
          /\ pc' = next
          /\ err' = "save"
          /\ UNCHANGED saved

(***************************************************************************)
(* image.save(path): the file is replaced by the bitmap, or the call       *)
(* raises and leaves the file as it was or partly written.                 *)
(***************************************************************************)
SaveTo(path, image, next) ==
    /\ attempts' = Append(attempts, path)
    /\ \/ /\ fs' = [fs EXCEPT ![path] = image]
          /\ saved' = Append(saved, path)
          /\ pc' = next
          /\ UNCHANGED err
       \/ /\ \E left \in {fs[path], PartialFile} : fs' = [fs EXCEPT ![path] = left]
          /\ Raise("save")
          /\ UNCHANGED saved

\* resized.save(f'public/icons/icon-{size}.png')
SaveStep ==
    /\ pc = "save"
    /\ SaveTo(IconPath(size), resized, "print")
    /\ UNCHANGED <<publicDir, iconsDir, proc, stdout, hist, opens>>

\* print(f'Created public/icons/icon-{size}.png')
PrintStep ==
    /\ pc = "print"
    /\ stdout' = Append(stdout, Message(size))
    /\ pc' = "for"
    /\ UNCHANGED <<err, publicDir, iconsDir, fs, proc, hist, opens, attempts, saved>>

(***************************************************************************)
(* resized_64 = base_icon.resize((64, 64), Image.Resampling.LANCZOS)       *)
(***************************************************************************)
Resize64 ==
    /\ pc = "resize_64"
    /\ IF base_icon.kind # "png"
       THEN /\ Raise("resize")
            /\ UNCHANGED resized_64
       ELSE /\ resized_64' = Resize(base_icon, Size64)
            /\ pc' = "save_64"
            /\ UNCHANGED err
    /\ UNCHANGED <<publicDir, iconsDir, fs, base_icon, idx, size, resized,
                   stdout, hist, opens, attempts, saved>>

\* resized_64.save('public/icons/icon-64.png')
Save64 ==
    /\ pc = "save_64"
    /\ SaveTo(Icon64Path, resized_64, "print_64")
    /\ UNCHANGED <<publicDir, iconsDir, proc, stdout, hist, opens>>

\* print('Created public/icons/icon-64.png'); the script ends
Print64 ==
    /\ pc = "print_64"
    /\ stdout' = Append(stdout, Icon64Message)
    /\ pc' = "done"
    /\ UNCHANGED <<err, publicDir, iconsDir, fs, proc, hist, opens, attempts, saved>>

(***************************************************************************)
(* The script is invoked again on the file system the last run left.       *)
(***************************************************************************)
Rerun ==
    /\ pc \in {"done", "error"}
    /\ run < MaxRuns
    /\ run' = run + 1
    /\ prevEnd' = pc
    /\ prevOut' = fs
    /\ fs0' = fs
    /\ iconsDir0' = iconsDir
    /\ publicDir0' = publicDir
    /\ pc' = "makedirs"
    /\ err' = "none"
    /\ base_icon' = NoImage
    /\ idx' = 0
    /\ size' = 0
    /\ resized' = NoImage
    /\ resized_64' = NoImage
    /\ stdout' = <<>>
    /\ opens' = 0
    /\ attempts' = <<>>
    /\ saved' = <<>>
    /\ UNCHANGED <<publicDir, iconsDir, fs>>

Step ==
    \/ MakeDirs
    \/ OpenBase
    \/ ForNext
    \/ ResizeStep
    \/ SaveStep
    \/ PrintStep
    \/ Resize64
    \/ Save64
    \/ Print64

Next == Step \/ Rerun

Spec == Init /\ [][Next]_vars

\* The interpreter always runs the next statement of a started script.
FairSpec == Spec /\ WF_vars(Step)

(***************************************************************************)
(* Properties.  The names and sizes below are those of the specification,  *)
(* written out independently of the script's literals.                     *)
(***************************************************************************)
SizeSet == {16, 32, 48, 64, 128}
ExpectedPath(s) ==
    CASE s = 16 -> "public/icons/icon-16.png"
      [] s = 32 -> "public/icons/icon-32.png"
      [] s = 48 -> "public/icons/icon-48.png"
      [] s = 64 -> "public/icons/icon-64.png"
      [] s = 128 -> "public/icons/icon-128.png"
ExpectedMessage(s) == "Created " \o ExpectedPath(s)
\* the bitmap of size s resampled directly from the source file's bitmap
ExpectedIcon(s) ==
    [kind |-> "png", w |-> s, h |-> s, px |-> fs0[SourcePath].px, chain |-> <<s>>]
Count(q, x) == Cardinality({i \in 1..Len(q) : q[i] = x})
NoDuplicates(q) == \A i, j \in 1..Len(q) : q[i] = q[j] => i = j
Terminal == {"done", "error"}
SourceUnusable == fs0[SourcePath].kind \in {"absent", "garbage", "truncated"}
SpecOrder == <<16, 32, 48, 64, 128>>
CodeOrder == <<16, 32, 48, 128, 64>>

\* C1: when the run ends normally, each of the five sizes has its file
\* public/icons/icon-<s>.png holding an s x s bitmap, and each file was
\* passed to save exactly once, successfully.
C1_AllSizesWritten ==
    pc = "done" =>
        \A s \in SizeSet :
            /\ fs[ExpectedPath(s)].kind = "png"
            /\ fs[ExpectedPath(s)].w = s
            /\ fs[ExpectedPath(s)].h = s
            /\ Count(saved, ExpectedPath(s)) = 1
            /\ Count(attempts, ExpectedPath(s)) = 1

\* a normal end that replaced a stale icon-64.png and created icon-128.png
C1_Witness ==
    /\ pc = "done"
    /\ fs0[ExpectedPath(64)] = StaleFile
    /\ fs0[ExpectedPath(128)] = NoFile

\* C2 as stated: with the source file missing or undecodable the run aborts,
\* and in the aborted state it has produced no file-system output at all
\* and no message.
C2_NoOutputAtAll ==
    SourceUnusable =>
        /\ pc # "done"
        /\ pc = "error" =>
              /\ \A p \in Paths : fs[p] = fs0[p]
              /\ stdout = <<>>
              /\ iconsDir = iconsDir0
              /\ publicDir = publicDir0

\* C2 (amended): with the source file missing or undecodable the run never
\* ends normally, no save is attempted, no file is created or changed and
\* no message is printed; the only file-system effect the run can have is
\* the creation of the directory public/icons (with its parent) by the
\* makedirs call that precedes the load.
C2_NoIconOutput ==
    SourceUnusable =>
        /\ pc # "done"
        /\ attempts = <<>>
        /\ saved = <<>>
        /\ \A p \in Paths : fs[p] = fs0[p]
        /\ stdout = <<>>
        /\ \/ /\ iconsDir = iconsDir0
              /\ publicDir = publicDir0
           \/ /\ iconsDir0 = "absent"
              /\ iconsDir = "dir"
              /\ publicDir = "dir"
              /\ pc # "makedirs"

\* the load of a missing source has aborted the run after the directory was made
C2_Witness ==
    /\ fs0[SourcePath] = NoFile
    /\ pc = "error"
    /\ err = "open"
    /\ iconsDir0 = "absent"
    /\ iconsDir = "dir"

\* C3 as stated: saves and messages follow the order 16, 32, 48, 64, 128.
C3_SpecListOrder ==
    \A i, j \in 1..Len(SpecOrder) :
        (i < j /\ ExpectedPath(SpecOrder[j]) \in Range(attempts)) =>
            /\ ExpectedPath(SpecOrder[i]) \in Range(saved)
            /\ ExpectedMessage(SpecOrder[i]) \in Range(stdout)

\* C3 (amended): saves and messages follow the order 16, 32, 48, 128, 64,
\* strictly one after the other: the k-th save is of the k-th size of that
\* order, and it is attempted only after the saves and messages of all
\* earlier sizes.
C3_CodeListOrder ==
    /\ Len(attempts) <= Len(CodeOrder)
    /\ \A k \in 1..Len(attempts) : attempts[k] = ExpectedPath(CodeOrder[k])
    /\ \A k \in 1..Len(saved) : saved[k] = attempts[k]
    /\ \A k \in 1..Len(stdout) : stdout[k] = ExpectedMessage(CodeOrder[k])
    /\ Len(stdout) <= Len(saved)
    /\ Len(saved) <= Len(attempts)
    /\ Len(attempts) <= Len(stdout) + 1

\* icon-128.png written and confirmed while icon-64.png is not yet attempted
C3_Witness ==
    /\ ExpectedPath(128) \in Range(saved)
    /\ ExpectedMessage(128) \in Range(stdout)
    /\ ExpectedPath(64) \notin Range(attempts)

\* C4: a save that raises ends the run in the error state; from then on the
\* run writes no file, prints nothing and attempts no save, and the failed
\* save was attempted only once.
C4_SaveFailureAborts ==
    /\ [](err = "save" =>
            /\ pc = "error"
            /\ Len(attempts) = Len(saved) + 1
            /\ Len(stdout) = Len(saved)
            /\ NoDuplicates(attempts))
    /\ [][(err = "save" /\ run' = run) =>
            UNCHANGED <<pc, fs, stdout, attempts, saved>>]_vars

\* the third save of a run has failed
C4_Witness ==
    /\ err = "save"
    /\ pc = "error"
    /\ Len(saved) = 2
    /\ Len(attempts) = 3

\* C5: an existing public/icons is not an error and stays a directory, an
\* absent one has been created once makedirs has returned, and every file
\* of the directory that no save of this run was given, the unrelated file
\* among them, is as it was when the run started.
C5_DirectoryKept ==
    /\ iconsDir0 = "dir" => (iconsDir = "dir" /\ err # "makedirs")
    /\ (pc # "makedirs" /\ err # "makedirs") => iconsDir = "dir"
    /\ fs[UnrelatedPath] = fs0[UnrelatedPath]
    /\ \A p \in Paths : p \notin Range(attempts) => fs[p] = fs0[p]

\* a complete run over an existing directory holding an unrelated file
C5_Witness ==
    /\ pc = "done"
    /\ iconsDir0 = "dir"
    /\ fs0[UnrelatedPath] = StaleFile
    /\ fs[UnrelatedPath] = StaleFile

\* C6: every run ends, in "done" or in "error"; "done" is reached only
\* with all five files saved and no error, "error" is entered by the very
\* step that raised, and an ended run takes no further step (the next step
\* can only be a new invocation).
C6_ReachesTerminalState ==
    /\ (pc \notin Terminal) ~> (pc \in Terminal)
    /\ [](pc = "error" <=> err # "none")
    /\ [](err \in {"none", "makedirs", "open", "resize", "save"})
    /\ [](pc = "done" =>
            /\ Len(saved) = Cardinality(SizeSet)
            /\ \A s \in SizeSet : ExpectedPath(s) \in Range(saved)
            /\ \A s \in SizeSet : fs[ExpectedPath(s)].kind = "png")
    /\ [][(pc \in Terminal) => (run' = run + 1 /\ pc' = "makedirs")]_vars

\* a run that ended normally after an earlier run had aborted on a save
C6_Witness ==
    /\ pc = "done"
    /\ prevEnd = "error"
    /\ Len(saved) = 5
    /\ \E p \in OutPaths : fs0[p] = PartialFile

\* C7: a run that ends normally leaves in each of the five output files the
\* bitmap resampled from the source image to that size, whatever the file
\* held before; so a second run on the files the first one left yields the
\* same five files.
C7_OutputsDependOnSourceOnly ==
    pc = "done" =>
        /\ \A s \in SizeSet : fs[ExpectedPath(s)] = ExpectedIcon(s)
        /\ prevEnd = "done" =>
              \A s \in SizeSet : fs[ExpectedPath(s)] = prevOut[ExpectedPath(s)]

\* the second of two complete runs, the first of which replaced a stale file
C7_Witness ==
    /\ pc = "done"
    /\ prevEnd = "done"
    /\ run = 2
    /\ fs0[ExpectedPath(16)] = ExpectedIcon(16)

\* C8: every line printed is the confirmation of one of the five sizes,
\* none is printed twice, a size is confirmed only when its file has been
\* saved by this run and holds the new bitmap, and a normal end has printed
\* exactly five confirmations, one per size.
C8_ConfirmedOnlyAfterWrite ==
    /\ \A k \in 1..Len(stdout) :
          \E s \in SizeSet :
              /\ stdout[k] = ExpectedMessage(s)
              /\ ExpectedPath(s) \in Range(saved)
              /\ fs[ExpectedPath(s)] = ExpectedIcon(s)
    /\ NoDuplicates(stdout)
    /\ pc = "done" =>
          /\ Len(stdout) = 5
          /\ Range(stdout) = {ExpectedMessage(s) : s \in SizeSet}

\* a file has been saved and its confirmation is still to be printed
C8_Witness ==
    /\ pc = "print"
    /\ Len(saved) = 3
    /\ Len(stdout) = 2

\* C9: Image.open is called at most once in a run and before any resize,
\* the source file is never changed, base_icon stays the bitmap that was
\* opened, and every resized bitmap and every saved file is one resampling
\* of that bitmap to its own size.
C9_BaseReadOnceNeverChanged ==
    /\ opens <= 1
    /\ (resized # NoImage \/ resized_64 # NoImage) => opens = 1
    /\ fs[SourcePath] = fs0[SourcePath]
    /\ (opens = 1 /\ err # "open") => base_icon = fs0[SourcePath]
    /\ resized # NoImage => \E s \in SizeSet : resized = ExpectedIcon(s)
    /\ pc \in {"save", "print"} => resized = ExpectedIcon(size)
    /\ resized_64 # NoImage => resized_64 = ExpectedIcon(64)
    /\ \A k \in 1..Len(saved) :
          \E s \in SizeSet : saved[k] = ExpectedPath(s) /\ fs[saved[k]] = ExpectedIcon(s)

\* the fifth resize has been made from the base image after four saves
C9_Witness ==
    /\ pc = "save_64"
    /\ Len(saved) = 4
    /\ resized_64.chain = <<64>>
    /\ resized.chain = <<128>>

\* C10: when a run has aborted, the files it saved are the first files of
\* the order 16, 32, 48, 128, 64, and each still holds the bitmap the run
\* wrote.
C10_AbortLeavesPrefix ==
    pc = "error" =>
        /\ Len(saved) < Len(CodeOrder)
        /\ \A k \in 1..Len(saved) :
              /\ saved[k] = ExpectedPath(CodeOrder[k])
              /\ fs[saved[k]] = ExpectedIcon(CodeOrder[k])

\* the last save failed after four files, one of them over a stale file
C10_Witness ==
    /\ pc = "error"
    /\ err = "save"
    /\ Len(saved) = 4
    /\ fs0[ExpectedPath(16)] = StaleFile
    /\ fs[ExpectedPath(16)] = ExpectedIcon(16)

====
